---------------------------- MODULE Spec2Model ----------------------------
(***************************************************************************)
(* The HSV5 handshake of srt-protocol (pending_connection/hsv5.rs):        *)
(* the responder's gen_hsv5_response and the initiator's two phases,       *)
(* start_hsv5_initiation and StartedInitiator::finish_hsv5_initiation.     *)
(*                                                                         *)
(* Option<T> is a sequence of length at most one: None is <<>>, Some(x)    *)
(* is <<x>>.  Enum variants are records with a tag field.                  *)
(***************************************************************************)
EXTENDS Naturals, Sequences, FiniteSets

\* ------------------------------------------------------------------ bounds
\* Latencies (Duration) range over 0..MaxLatency.
MaxLatency == 1
\* A StartedInitiator may be cloned at most MaxClones times in one run.
MaxClones == 1

\* ------------------------------------------------------- program constants
MaxPacketSize == 1500
MaxFlowSize == 8192

\* ------------------------------------------------------------ value domains
None == <<>>
Some(x) == <<x>>
IsSome(o) == o # <<>>
Unwrap(o) == o[1]
Option(S) == {None} \cup {Some(x) : x \in S}

Max(a, b) == IF a >= b THEN a ELSE b

Latencies == 0..MaxLatency
KeySizes == {16, 24}
Passphrases == {"pw1", "pw2"}
\* outcomes of the random key generation of CryptoManager::new_random
Keys == {"k1", "k2"}
StreamIds == Option({"sid"})
Addrs == {"peer"}
ListenerSockId == "L"
CallerSockId == "C"
ListenerSeqNum == "seqL"
CallerSeqNum == "seqC"
RejectReasons == {"Overload", "Forbidden"}

CryptoOptions == [size : KeySizes, passphrase : Passphrases]

ConnInitSettings(sockid, seqnum) ==
    [local_sockid : {sockid}, starting_send_seqnum : {seqnum},
     send_latency : Latencies, recv_latency : Latencies,
     crypto : Option(CryptoOptions)]

\* SrtControlPacket::KeyManagerRequest / KeyManagerResponse carry a key
\* wrapped under the passphrase; the handshake never looks inside.
KeyMaterial == [klen : KeySizes, wrap : Passphrases, key : Keys]
KeyManagerRequest(km) == [type |-> "KeyManagerRequest", km |-> km]
KeyManagerResponse(km) == [type |-> "KeyManagerResponse", km |-> km]

\* SrtControlPacket::HandshakeRequest / HandshakeResponse (SrtHandshake)
SrtHandshake(s, r) ==
    [version |-> "CURRENT", flags |-> "SUPPORTED", send_latency |-> s, recv_latency |-> r]
HandshakeRequest(hs) == [type |-> "HandshakeRequest", hs |-> hs]
HandshakeResponse(hs) == [type |-> "HandshakeResponse", hs |-> hs]

SrtHandshakes == {SrtHandshake(s, r) : s \in Latencies, r \in Latencies}
ExtHsPackets ==
    {HandshakeRequest(hs) : hs \in SrtHandshakes}
        \cup {HandshakeResponse(hs) : hs \in SrtHandshakes}
ExtKmPackets ==
    {KeyManagerRequest(km) : km \in KeyMaterial}
        \cup {KeyManagerResponse(km) : km \in KeyMaterial}

\* HandshakeVSInfo: V4(socket type) or V5(HSV5Info)
V4(st) == [version |-> "V4", socket_type |-> st]
V5(cs, hs, km, sid) ==
    [version |-> "V5", crypto_size |-> cs, ext_hs |-> hs, ext_km |-> km, sid |-> sid]
HandshakeVSInfos ==
    {V4(st) : st \in {"Stream", "Datagram"}}
        \cup {V5(cs, hs, km, sid) : cs \in {0} \cup KeySizes, hs \in Option(ExtHsPackets),
                                    km \in Option(ExtKmPackets), sid \in StreamIds}

\* HandshakeControlInfo: the fields the handshake reads
HandshakeControlInfo(info, sockid, seqnum) ==
    [info |-> info, socket_id |-> sockid, init_seq_num |-> seqnum]

\* what StreamAcceptor::accept may return: Ok(AcceptParameters) whose
\* take_crypto_options() yields an optional CryptoOptions, or Err(reason)
AcceptOk(co) == [ok |-> TRUE, crypto |-> co]
AcceptErr(rr) == [ok |-> FALSE, reason |-> rr]
AcceptResults ==
    {AcceptOk(co) : co \in Option(CryptoOptions)} \cup {AcceptErr(rr) : rr \in RejectReasons}

\* ------------------------------------------------ crypto sub-protocol (4.4)
new_random(co, key) == [options |-> co, key |-> key]
generate_km(cm) ==
    [klen |-> cm.options.size, wrap |-> cm.options.passphrase, key |-> cm.key]
key_length(cm) == cm.options.size
Rejecting(reason) == [type |-> "Rejecting", reason |-> reason]
new_from_kmreq(co, km) ==
    IF km.klen # co.size \/ km.wrap # co.passphrase
    THEN [ok |-> FALSE, err |-> Rejecting("BadSecret")]
    ELSE [ok |-> TRUE, cm |-> [options |-> co, key |-> km.key]]

\* ------------------------------------------------------- GenHsv5Result enum
Accept(info, conn) == [kind |-> "Accept", info |-> info, conn |-> conn]
NotHandled(err) == [kind |-> "NotHandled", err |-> err]
Reject(rej) == [kind |-> "Reject", reject |-> rej]
\* unimplemented!(..): the call does not return, the thread panics
Panic(msg) == [kind |-> "Panic", msg |-> msg]

\* ---------------------------------------------------- gen_hsv5_response
\* faulty variant: the version rejection carries another reason
version_reject_other_reason == Reject(Rejecting("Forbidden"))

\* lines 30-37: the rejection of a payload that is not HandshakeVSInfo::V5
version_reject == Reject(Rejecting("Version"))

\* faulty variant: the acceptor's reason is replaced by a fixed one
acceptor_reject_fixed_reason(rr) == Reject(Rejecting("Version"))

\* line 41: the acceptor's Err(rr) becomes the result
acceptor_reject(rr) == Reject(Rejecting(rr))

\* faulty variant: the acceptor's crypto options only fill in missing ones
apply_accept_params_keeps_existing(settings, accept_params) ==
    IF IsSome(accept_params.crypto) /\ ~IsSome(settings.crypto)
    THEN [settings EXCEPT !.crypto = accept_params.crypto]
    ELSE settings

\* faulty variant: the acceptor's answer always replaces the crypto options,
\* clearing them when it supplies none
apply_accept_params_always(settings, accept_params) ==
    [settings EXCEPT !.crypto = accept_params.crypto]

\* lines 44-47: apply parameters generated by acceptor
apply_accept_params(settings, accept_params) ==
    IF IsSome(accept_params.crypto)
    THEN [settings EXCEPT !.crypto = accept_params.crypto]
    ELSE settings

\* faulty variant: an absent ext_hs is reported like one of the wrong shape
ext_hs_request_one_error(incoming) ==
    IF IsSome(incoming.ext_hs) /\ Unwrap(incoming.ext_hs).type = "HandshakeRequest"
    THEN [ok |-> TRUE, hs |-> Unwrap(incoming.ext_hs).hs]
    ELSE [ok |-> FALSE, err |-> "ExpectedHSReq"]

\* lines 49-53: the embedded handshake request
ext_hs_request(incoming) ==
    IF IsSome(incoming.ext_hs)
    THEN IF Unwrap(incoming.ext_hs).type = "HandshakeRequest"
         THEN [ok |-> TRUE, hs |-> Unwrap(incoming.ext_hs).hs]
         ELSE [ok |-> FALSE, err |-> "ExpectedHSReq"]
    ELSE [ok |-> FALSE, err |-> "ExpectedExtFlags"]

\* faulty variant: without local crypto the peer's key-exchange request is ignored
crypto_negotiation_ignores_km(crypto, incoming) ==
    IF ~IsSome(crypto)
    THEN [kind |-> "Ok", cm |-> None]
    ELSE IF IsSome(incoming.ext_km)
    THEN IF Unwrap(incoming.ext_km).type = "KeyManagerRequest"
         THEN IF Unwrap(crypto).size # incoming.crypto_size
              THEN Panic("Key size mismatch")
              ELSE LET r == new_from_kmreq(Unwrap(crypto), Unwrap(incoming.ext_km).km)
                   IN  IF r.ok THEN [kind |-> "Ok", cm |-> Some(r.cm)]
                       ELSE Reject(r.err)
         ELSE Panic("Expected kmreq")
    ELSE Panic("Crypto mismatch")

\* faulty variant: a key-exchange request that cannot be unwrapped is dropped
\* and the handshake goes on without crypto
crypto_negotiation_drops_bad_km(crypto, incoming) ==
    IF IsSome(crypto) /\ IsSome(incoming.ext_km)
    THEN IF Unwrap(incoming.ext_km).type = "KeyManagerRequest"
         THEN IF Unwrap(crypto).size # incoming.crypto_size
              THEN Panic("Key size mismatch")
              ELSE LET r == new_from_kmreq(Unwrap(crypto), Unwrap(incoming.ext_km).km)
                   IN  IF r.ok THEN [kind |-> "Ok", cm |-> Some(r.cm)]
                       ELSE [kind |-> "Ok", cm |-> None]
         ELSE Panic("Expected kmreq")
    ELSE IF ~IsSome(crypto) /\ ~IsSome(incoming.ext_km)
         THEN [kind |-> "Ok", cm |-> None]
         ELSE Panic("Crypto mismatch")

\* lines 55-73: the match on (&settings.crypto, &incoming.ext_km)
crypto_negotiation(crypto, incoming) ==
    IF IsSome(crypto) /\ IsSome(incoming.ext_km)
    THEN IF Unwrap(incoming.ext_km).type = "KeyManagerRequest"
         THEN IF Unwrap(crypto).size # incoming.crypto_size
              THEN Panic("Key size mismatch")
              ELSE LET r == new_from_kmreq(Unwrap(crypto), Unwrap(incoming.ext_km).km)
                   IN  IF r.ok THEN [kind |-> "Ok", cm |-> Some(r.cm)]
                       ELSE Reject(r.err)
         ELSE Panic("Expected kmreq")
    ELSE IF ~IsSome(crypto) /\ ~IsSome(incoming.ext_km)
         THEN [kind |-> "Ok", cm |-> None]
         ELSE Panic("Crypto mismatch")

\* faulty variant: the response echoes the peer's crypto_size
response_info_echoes_size(settings, with_hsv5, cm) ==
    V5(with_hsv5.info.crypto_size,
       Some(HandshakeResponse(SrtHandshake(settings.send_latency, settings.recv_latency))),
       IF IsSome(cm) THEN Some(KeyManagerResponse(generate_km(Unwrap(cm)))) ELSE None,
       IF with_hsv5.info.version = "V5" THEN with_hsv5.info.sid ELSE None)

\* faulty variant: the response advertises the latencies the wrong way round
response_info_swapped_latency(settings, with_hsv5, cm) ==
    V5(IF IsSome(cm) THEN key_length(Unwrap(cm)) ELSE 0,
       Some(HandshakeResponse(SrtHandshake(settings.recv_latency, settings.send_latency))),
       IF IsSome(cm) THEN Some(KeyManagerResponse(generate_km(Unwrap(cm)))) ELSE None,
       IF with_hsv5.info.version = "V5" THEN with_hsv5.info.sid ELSE None)

\* faulty variant: the response does not echo the stream id
response_info_no_sid(settings, with_hsv5, cm) ==
    V5(IF IsSome(cm) THEN key_length(Unwrap(cm)) ELSE 0,
       Some(HandshakeResponse(SrtHandshake(settings.send_latency, settings.recv_latency))),
       IF IsSome(cm) THEN Some(KeyManagerResponse(generate_km(Unwrap(cm)))) ELSE None,
       None)

\* lines 74-78 and 85-96: the outbound HandshakeVSInfo::V5
response_info(settings, with_hsv5, cm) ==
    V5(IF IsSome(cm) THEN key_length(Unwrap(cm)) ELSE 0,
       Some(HandshakeResponse(SrtHandshake(settings.send_latency, settings.recv_latency))),
       IF IsSome(cm) THEN Some(KeyManagerResponse(generate_km(Unwrap(cm)))) ELSE None,
       IF with_hsv5.info.version = "V5" THEN with_hsv5.info.sid ELSE None)

\* faulty variant: each latency is combined with the peer's same-direction latency
response_settings_same_direction(settings, with_hsv5, from, hs, cm) ==
    [remote |-> from,
     remote_sockid |-> with_hsv5.socket_id,
     local_sockid |-> settings.local_sockid,
     socket_start_time |-> "now",
     init_send_seq_num |-> settings.starting_send_seqnum,
     init_recv_seq_num |-> with_hsv5.init_seq_num,
     max_packet_size |-> MaxPacketSize,
     max_flow_size |-> MaxFlowSize,
     send_tsbpd_latency |-> Max(settings.send_latency, hs.send_latency),
     recv_tsbpd_latency |-> Max(settings.recv_latency, hs.recv_latency),
     crypto_manager |-> cm,
     stream_id |-> with_hsv5.info.sid]

\* lines 97-110: the responder's ConnectionSettings
response_settings(settings, with_hsv5, from, hs, cm) ==
    [remote |-> from,
     remote_sockid |-> with_hsv5.socket_id,
     local_sockid |-> settings.local_sockid,
     socket_start_time |-> "now",
     init_send_seq_num |-> settings.starting_send_seqnum,
     init_recv_seq_num |-> with_hsv5.init_seq_num,
     max_packet_size |-> MaxPacketSize,
     max_flow_size |-> MaxFlowSize,
     send_tsbpd_latency |-> Max(settings.send_latency, hs.recv_latency),
     recv_tsbpd_latency |-> Max(settings.recv_latency, hs.send_latency),
     crypto_manager |-> cm,
     stream_id |-> with_hsv5.info.sid]

\* faulty variant: the crypto match runs before the ext_hs check
gen_hsv5_response_crypto_first(settings, with_hsv5, from, accept) ==
    IF with_hsv5.info.version # "V5"
    THEN [ret |-> version_reject, settings |-> settings, accept_called |-> FALSE]
    ELSE IF ~accept.ok
    THEN [ret |-> acceptor_reject(accept.reason), settings |-> settings,
          accept_called |-> TRUE]
    ELSE LET incoming == with_hsv5.info
             settings1 == apply_accept_params(settings, accept)
             ext == ext_hs_request(incoming)
             neg == crypto_negotiation(settings1.crypto, incoming)
         IN  [ret |-> IF neg.kind # "Ok" THEN neg
                      ELSE IF ~ext.ok THEN NotHandled(ext.err)
                      ELSE Accept(response_info(settings1, with_hsv5, neg.cm),
                                  response_settings(settings1, with_hsv5, from, ext.hs, neg.cm)),
              settings |-> settings1,
              accept_called |-> TRUE]

\* lines 24-112.  settings is a &mut: the value after the call is returned
\* beside the result.  accept is what acceptor.accept(..) returns when the
\* call reaches it; accept_called tells whether it did.
gen_hsv5_response(settings, with_hsv5, from, accept) ==
    IF with_hsv5.info.version # "V5"
    THEN [ret |-> version_reject, settings |-> settings, accept_called |-> FALSE]
    ELSE IF ~accept.ok
    THEN [ret |-> acceptor_reject(accept.reason), settings |-> settings,
          accept_called |-> TRUE]
    ELSE LET incoming == with_hsv5.info
             settings1 == apply_accept_params(settings, accept)
             ext == ext_hs_request(incoming)
             neg == crypto_negotiation(settings1.crypto, incoming)
         IN  [ret |-> IF ~ext.ok THEN NotHandled(ext.err)
                      ELSE IF neg.kind # "Ok" THEN neg
                      ELSE Accept(response_info(settings1, with_hsv5, neg.cm),
                                  response_settings(settings1, with_hsv5, from, ext.hs, neg.cm)),
              settings |-> settings1,
              accept_called |-> TRUE]

\* faulty variant: the request never advertises a key size
start_hsv5_initiation_no_size(settings, streamid, key) ==
    LET cm == IF IsSome(settings.crypto)
              THEN Some(new_random(Unwrap(settings.crypto), key))
              ELSE None
        ext_km == IF IsSome(settings.crypto)
                  THEN Some(KeyManagerRequest(generate_km(Unwrap(cm))))
                  ELSE None
    IN  [info |-> V5(0,
                     Some(HandshakeRequest(
                         SrtHandshake(settings.send_latency, settings.recv_latency))),
                     ext_km,
                     streamid),
         token |-> [cm |-> cm, settings |-> settings, streamid |-> streamid]]

\* ------------------------------------------------- start_hsv5_initiation
\* lines 121-157.  key is the outcome of the random key generation of
\* CryptoManager::new_random.
start_hsv5_initiation(settings, streamid, key) ==
    LET self_crypto_size ==
            IF IsSome(settings.crypto) THEN Unwrap(settings.crypto).size ELSE 0
        cm == IF IsSome(settings.crypto)
              THEN Some(new_random(Unwrap(settings.crypto), key))
              ELSE None
        ext_km == IF IsSome(settings.crypto)
                  THEN Some(KeyManagerRequest(generate_km(Unwrap(cm))))
                  ELSE None
    IN  [info |-> V5(self_crypto_size,
                     Some(HandshakeRequest(
                         SrtHandshake(settings.send_latency, settings.recv_latency))),
                     ext_km,
                     streamid),
         token |-> [cm |-> cm, settings |-> settings, streamid |-> streamid]]

\* --------------------------- StartedInitiator::finish_hsv5_initiation
\* faulty variant: an absent ext_hs is reported like one of the wrong shape
ext_hs_response_one_error(incoming) ==
    IF IsSome(incoming.ext_hs) /\ Unwrap(incoming.ext_hs).type = "HandshakeResponse"
    THEN [ok |-> TRUE, hs |-> Unwrap(incoming.ext_hs).hs]
    ELSE [ok |-> FALSE, err |-> [type |-> "ExpectedHSResp"]]

\* lines 171-175: the embedded handshake response
ext_hs_response(incoming) ==
    IF IsSome(incoming.ext_hs)
    THEN IF Unwrap(incoming.ext_hs).type = "HandshakeResponse"
         THEN [ok |-> TRUE, hs |-> Unwrap(incoming.ext_hs).hs]
         ELSE [ok |-> FALSE, err |-> [type |-> "ExpectedHSResp"]]
    ELSE [ok |-> FALSE, err |-> [type |-> "ExpectedExtFlags"]]

\* faulty variant: the crypto manager is kept only when the response carries a
\* key-exchange sub-packet
initiator_settings_needs_km(self, response, from, hs) ==
    [remote |-> from,
     remote_sockid |-> response.socket_id,
     local_sockid |-> self.settings.local_sockid,
     socket_start_time |-> "now",
     init_send_seq_num |-> self.settings.starting_send_seqnum,
     init_recv_seq_num |-> response.init_seq_num,
     max_packet_size |-> MaxPacketSize,
     max_flow_size |-> MaxFlowSize,
     send_tsbpd_latency |-> Max(self.settings.send_latency, hs.recv_latency),
     recv_tsbpd_latency |-> Max(self.settings.recv_latency, hs.send_latency),
     crypto_manager |-> IF IsSome(response.info.ext_km) THEN self.cm ELSE None,
     stream_id |-> self.streamid]

\* faulty variant: each latency is combined with the peer's same-direction latency
initiator_settings_same_direction(self, response, from, hs) ==
    [remote |-> from,
     remote_sockid |-> response.socket_id,
     local_sockid |-> self.settings.local_sockid,
     socket_start_time |-> "now",
     init_send_seq_num |-> self.settings.starting_send_seqnum,
     init_recv_seq_num |-> response.init_seq_num,
     max_packet_size |-> MaxPacketSize,
     max_flow_size |-> MaxFlowSize,
     send_tsbpd_latency |-> Max(self.settings.send_latency, hs.send_latency),
     recv_tsbpd_latency |-> Max(self.settings.recv_latency, hs.recv_latency),
     crypto_manager |-> self.cm,
     stream_id |-> self.streamid]

\* lines 180-193: the initiator's ConnectionSettings
initiator_settings(self, response, from, hs) ==
    [remote |-> from,
     remote_sockid |-> response.socket_id,
     local_sockid |-> self.settings.local_sockid,
     socket_start_time |-> "now",
     init_send_seq_num |-> self.settings.starting_send_seqnum,
     init_recv_seq_num |-> response.init_seq_num,
     max_packet_size |-> MaxPacketSize,
     max_flow_size |-> MaxFlowSize,
     send_tsbpd_latency |-> Max(self.settings.send_latency, hs.recv_latency),
     recv_tsbpd_latency |-> Max(self.settings.recv_latency, hs.send_latency),
     crypto_manager |-> self.cm,
     stream_id |-> self.streamid]

\* lines 160-194: Result<ConnectionSettings, ConnectError>
finish_hsv5_initiation(self, response, from) ==
    IF response.info.version # "V5"
    THEN [ok |-> FALSE,
          err |-> [type |-> "UnsupportedProtocolVersion", version |-> response.info.version]]
    ELSE LET ext == ext_hs_response(response.info)
         IN  IF ~ext.ok THEN [ok |-> FALSE, err |-> ext.err]
             ELSE [ok |-> TRUE, conn |-> initiator_settings(self, response, from, ext.hs)]

\* ------------------------------------------------------------------- state
VARIABLES
    settings,             \* the listener's ConnInitSettings, passed as &mut to every call
    crypto_from_acceptor, \* settings.crypto was written by line 46 in some call so far
    rpc,                  \* responder: "new", "idle", "ready", "done", "sent", "panicked"
    with_hsv5,            \* Option: the inbound handshake of the current call
    accepted,             \* Option: what acceptor.accept returned in the current call
    result,               \* Option: the GenHsv5Result of the current call
    tokens,               \* the StartedInitiator values the caller holds
    nclones,              \* how many times a StartedInitiator was cloned
    request,              \* Option: the initiator's request on the wire
    response,             \* Option: the response the initiator received
    finished              \* the calls of finish_hsv5_initiation, in order: [self, ret]

vars == <<settings, crypto_from_acceptor, rpc, with_hsv5, accepted, result,
          tokens, nclones, request, response, finished>>
rvars == <<settings, crypto_from_acceptor, rpc, with_hsv5, accepted, result>>
ivars == <<tokens, nclones, request, response, finished>>

\* every handshake packet a peer can put on the wire
HandshakeControlInfos ==
    {HandshakeControlInfo(info, CallerSockId, CallerSeqNum) : info \in HandshakeVSInfos}
ResponsePackets ==
    {HandshakeControlInfo(info, ListenerSockId, ListenerSeqNum) : info \in HandshakeVSInfos}

\* the listener's settings before its owner has filled them in
UnsetSettings ==
    [local_sockid |-> ListenerSockId, starting_send_seqnum |-> ListenerSeqNum,
     send_latency |-> 0, recv_latency |-> 0, crypto |-> None]

Init ==
    /\ settings = UnsetSettings
    /\ crypto_from_acceptor = FALSE
    /\ rpc = "new"
    /\ with_hsv5 = None
    /\ accepted = None
    /\ result = None
    /\ tokens = <<>>
    /\ nclones = 0
    /\ request = None
    /\ response = None
    /\ finished = <<>>

\* ------------------------------------------------------ responder actions
\* the owner of the listener fills in its ConnInitSettings and starts listening
Configure ==
    /\ rpc = "new"
    /\ settings' \in ConnInitSettings(ListenerSockId, ListenerSeqNum)
    /\ rpc' = "idle"
    /\ UNCHANGED <<crypto_from_acceptor, with_hsv5, accepted, result>>
    /\ UNCHANGED ivars

\* a handshake packet from any peer reaches the listener
RecvAny ==
    /\ rpc = "idle"
    /\ \E m \in HandshakeControlInfos : with_hsv5' = Some(m)
    /\ rpc' = "ready"
    /\ UNCHANGED <<settings, crypto_from_acceptor, accepted, result>>
    /\ UNCHANGED ivars

\* the initiator's own request reaches the listener
RecvRequest ==
    /\ rpc = "idle"
    /\ IsSome(request)
    /\ with_hsv5' = request
    /\ request' = None
    /\ rpc' = "ready"
    /\ UNCHANGED <<settings, crypto_from_acceptor, accepted, result>>
    /\ UNCHANGED <<tokens, nclones, response, finished>>

\* one call of gen_hsv5_response(&mut settings, &with_hsv5, from, &mut acceptor)
GenResponse ==
    /\ rpc = "ready"
    /\ \E from \in Addrs, accept \in AcceptResults :
         LET r == gen_hsv5_response(settings, Unwrap(with_hsv5), from, accept)
         IN  /\ settings' = r.settings
             /\ crypto_from_acceptor' =
                    (crypto_from_acceptor
                        \/ (r.accept_called /\ accept.ok /\ IsSome(accept.crypto)))
             /\ accepted' = IF r.accept_called THEN Some(accept) ELSE None
             /\ result' = Some(r.ret)
             /\ rpc' = IF r.ret.kind = "Panic" THEN "panicked" ELSE "done"
    /\ UNCHANGED with_hsv5
    /\ UNCHANGED ivars

\* the caller takes the result; the listener waits for the next packet
Return ==
    /\ rpc = "done"
    /\ rpc' = "idle"
    /\ with_hsv5' = None
    /\ accepted' = None
    /\ result' = None
    /\ UNCHANGED <<settings, crypto_from_acceptor>>
    /\ UNCHANGED ivars

\* the caller sends the accepted response back to the initiator
SendResponse ==
    /\ rpc = "done"
    /\ Unwrap(result).kind = "Accept"
    /\ response = None
    /\ response' = Some(HandshakeControlInfo(Unwrap(result).info,
                                             settings.local_sockid,
                                             settings.starting_send_seqnum))
    /\ rpc' = "sent"
    /\ UNCHANGED <<settings, crypto_from_acceptor, with_hsv5, accepted, result>>
    /\ UNCHANGED <<tokens, nclones, request, finished>>

\* ------------------------------------------------------ initiator actions
Start ==
    /\ tokens = <<>>
    /\ finished = <<>>
    /\ request = None
    /\ \E s \in ConnInitSettings(CallerSockId, CallerSeqNum), streamid \in StreamIds,
          key \in Keys :
         LET r == start_hsv5_initiation(s, streamid, key)
         IN  /\ tokens' = <<r.token>>
             /\ request' = Some(HandshakeControlInfo(r.info, s.local_sockid,
                                                     s.starting_send_seqnum))
    /\ UNCHANGED <<nclones, response, finished>>
    /\ UNCHANGED rvars

\* #[derive(Clone)] on StartedInitiator (line 114)
Clone ==
    /\ nclones < MaxClones
    /\ \E i \in DOMAIN tokens : tokens' = Append(tokens, tokens[i])
    /\ nclones' = nclones + 1
    /\ UNCHANGED <<request, response, finished>>
    /\ UNCHANGED rvars

\* a handshake packet from any peer reaches the initiator
RecvAnyResponse ==
    /\ tokens # <<>>
    /\ response = None
    /\ \E m \in ResponsePackets : response' = Some(m)
    /\ UNCHANGED <<tokens, nclones, request, finished>>
    /\ UNCHANGED rvars

RemoveAt(seq, i) == SubSeq(seq, 1, i - 1) \o SubSeq(seq, i + 1, Len(seq))

\* one call of finish_hsv5_initiation(self, &response, from): self is moved
Finish ==
    /\ IsSome(response)
    /\ \E i \in DOMAIN tokens, from \in Addrs :
         /\ finished' = Append(finished,
                [self |-> tokens[i],
                 ret |-> finish_hsv5_initiation(tokens[i], Unwrap(response), from)])
         /\ tokens' = RemoveAt(tokens, i)
    /\ UNCHANGED <<nclones, request, response>>
    /\ UNCHANGED rvars

\* ---------------------------------------------------------- specifications
\* one handshake between an initiator and the listener over a faithful wire
Next == Configure \/ Start \/ RecvRequest \/ GenResponse \/ SendResponse \/ Finish
Spec == Init /\ [][Next]_vars

\* the listener alone, fed any handshake packet, call after call
NextResponder == Configure \/ RecvAny \/ GenResponse \/ Return
SpecResponder == Init /\ [][NextResponder]_vars

\* the initiator alone, answered by any handshake packet
NextInitiator == Start \/ Clone \/ RecvAnyResponse \/ Finish
SpecInitiator == Init /\ [][NextInitiator]_vars

\* ------------------------------------------------------------------ claims
\* the current call of gen_hsv5_response has ended (returned or panicked)
CallEnded == rpc \in {"done", "sent", "panicked"}
\* a step that is one call of gen_hsv5_response
IsGenStep == rpc = "ready" /\ rpc' # "ready"
Incoming == Unwrap(with_hsv5).info
Ret == Unwrap(result)
Accepted == Unwrap(accepted)
ResponderFinalized == CallEnded /\ Ret.kind = "Accept"
PeerHs == Unwrap(Incoming.ext_hs).hs
OkFinishes == {i \in DOMAIN finished : finished[i].ret.ok}

\* C1: in a handshake that both sides complete (start, Accept from
\* gen_hsv5_response on that request, Ok from finish_hsv5_initiation on that
\* response), the responder's ConnectionSettings has a crypto manager iff
\* the initiator's has one.
C1_CryptoSymmetry ==
    \A i \in OkFinishes :
        ResponderFinalized =>
            (IsSome(Ret.conn.crypto_manager)
                <=> IsSome(finished[i].ret.conn.crypto_manager))

C1_Witness ==
    /\ OkFinishes # {}
    /\ ResponderFinalized
    /\ IsSome(Ret.conn.crypto_manager)
    /\ IsSome(finished[1].ret.conn.crypto_manager)

\* C2: gen_hsv5_response always returns Accept, NotHandled or Reject; it
\* never aborts, whatever the message, the settings and the acceptor.
C2_NeverAborts ==
    CallEnded => Ret.kind \in {"Accept", "NotHandled", "Reject"}

\* C3 as stated: whenever a side finalizes, its negotiated send latency is
\* at least both parties' configured send latency and the peer's advertised
\* receive latency; the same for receive with the directions swapped.
C3_BothPartiesLatency ==
    /\ ResponderFinalized =>
          /\ Ret.conn.send_tsbpd_latency >= settings.send_latency
          /\ Ret.conn.send_tsbpd_latency >= PeerHs.send_latency
          /\ Ret.conn.send_tsbpd_latency >= PeerHs.recv_latency
          /\ Ret.conn.recv_tsbpd_latency >= settings.recv_latency
          /\ Ret.conn.recv_tsbpd_latency >= PeerHs.recv_latency
          /\ Ret.conn.recv_tsbpd_latency >= PeerHs.send_latency
    /\ \A i \in OkFinishes :
          LET conn == finished[i].ret.conn
              own == finished[i].self.settings
              hs == Unwrap(Unwrap(response).info.ext_hs).hs
          IN  /\ conn.send_tsbpd_latency >= own.send_latency
              /\ conn.send_tsbpd_latency >= hs.send_latency
              /\ conn.send_tsbpd_latency >= hs.recv_latency
              /\ conn.recv_tsbpd_latency >= own.recv_latency
              /\ conn.recv_tsbpd_latency >= hs.recv_latency
              /\ conn.recv_tsbpd_latency >= hs.send_latency

\* C3 as amended: whenever a side finalizes, its negotiated send latency is
\* at least its own configured send latency and the peer's advertised
\* receive latency, and its negotiated receive latency is at least its own
\* configured receive latency and the peer's advertised send latency.
C3_OwnAndOppositeLatency ==
    /\ ResponderFinalized =>
          /\ Ret.conn.send_tsbpd_latency >= settings.send_latency
          /\ Ret.conn.send_tsbpd_latency >= PeerHs.recv_latency
          /\ Ret.conn.recv_tsbpd_latency >= settings.recv_latency
          /\ Ret.conn.recv_tsbpd_latency >= PeerHs.send_latency
    /\ \A i \in OkFinishes :
          LET conn == finished[i].ret.conn
              own == finished[i].self.settings
              hs == Unwrap(Unwrap(response).info.ext_hs).hs
          IN  /\ conn.send_tsbpd_latency >= own.send_latency
              /\ conn.send_tsbpd_latency >= hs.recv_latency
              /\ conn.recv_tsbpd_latency >= own.recv_latency
              /\ conn.recv_tsbpd_latency >= hs.send_latency

\* both sides finalized, and the peer's send latency exceeds the
\* responder's own send latency and the peer's receive latency
C3_Witness ==
    /\ OkFinishes # {}
    /\ ResponderFinalized
    /\ PeerHs.send_latency > settings.send_latency
    /\ PeerHs.send_latency > PeerHs.recv_latency
    /\ Ret.conn.send_tsbpd_latency = settings.send_latency

\* C4: a call whose inbound payload is not V5 returns Reject(Version),
\* does not invoke the acceptor and leaves the settings as they were.
C4_NonV5Rejected ==
    [][(IsGenStep /\ Incoming.version # "V5") =>
          /\ result' = Some(Reject(Rejecting("Version")))
          /\ accepted' = None
          /\ settings' = settings]_vars

C4_Witness ==
    /\ CallEnded
    /\ Incoming.version # "V5"
    /\ Ret = Reject(Rejecting("Version"))
    /\ IsSome(settings.crypto)

\* C5: a call on a V5 payload whose acceptor rejects with reason r returns
\* Reject carrying exactly r, leaves the settings (their crypto
\* configuration included) as they were and produces no ConnectionSettings.
C5_AcceptorRejectVerbatim ==
    [][(IsGenStep /\ Incoming.version = "V5" /\ IsSome(accepted')
            /\ ~Unwrap(accepted').ok) =>
          /\ result' = Some(Reject(Rejecting(Unwrap(accepted').reason)))
          /\ settings' = settings
          /\ crypto_from_acceptor' = crypto_from_acceptor]_vars

C5_Witness ==
    /\ CallEnded
    /\ Incoming.version = "V5"
    /\ IsSome(Incoming.ext_km)
    /\ IsSome(settings.crypto)
    /\ IsSome(accepted) /\ ~Accepted.ok
    /\ Ret = Reject(Rejecting("Forbidden"))

\* C6: a StartedInitiator made by one start_hsv5_initiation is finished at
\* most once, copies included: one start gives at most one call of
\* finish_hsv5_initiation and at most one ConnectionSettings.
C6_TokenFinishedOnce == Len(finished) <= 1

\* C7: a crypto configuration that the acceptor supplied for one peer is
\* not in effect in a later call whose acceptor supplies none: in such a
\* call the crypto negotiation never runs on acceptor-supplied crypto.
C7_NoCryptoCarryOver ==
    (CallEnded /\ IsSome(accepted) /\ Accepted.ok /\ ~IsSome(Accepted.crypto)
        /\ Ret.kind # "NotHandled")
      => ~crypto_from_acceptor

\* C8: on a V5 payload that the acceptor accepts, an absent ext_hs gives
\* NotHandled(ExpectedExtFlags) and an ext_hs that is not a handshake
\* request gives NotHandled(ExpectedHSReq).
C8_ExtHsFraming ==
    (CallEnded /\ Incoming.version = "V5" /\ IsSome(accepted) /\ Accepted.ok) =>
        /\ ~IsSome(Incoming.ext_hs) => Ret = NotHandled("ExpectedExtFlags")
        /\ (IsSome(Incoming.ext_hs)
              /\ Unwrap(Incoming.ext_hs).type # "HandshakeRequest")
            => Ret = NotHandled("ExpectedHSReq")

C8_Witness ==
    /\ CallEnded
    /\ Incoming.version = "V5"
    /\ IsSome(accepted) /\ Accepted.ok
    /\ ~IsSome(Incoming.ext_hs)
    /\ IsSome(settings.crypto) /\ ~IsSome(Incoming.ext_km)
    /\ Ret.kind = "NotHandled"

\* C9: with no crypto in the effective settings, a V5 payload with a
\* handshake request and no key-exchange sub-packet, and an accepting
\* acceptor, the call returns Accept with crypto_size 0, no key-exchange
\* sub-packet and no crypto manager.
C9_NoCryptoAccept ==
    (CallEnded /\ Incoming.version = "V5" /\ IsSome(accepted) /\ Accepted.ok
        /\ ~IsSome(settings.crypto)
        /\ IsSome(Incoming.ext_hs) /\ Unwrap(Incoming.ext_hs).type = "HandshakeRequest"
        /\ ~IsSome(Incoming.ext_km)) =>
        /\ Ret.kind = "Accept"
        /\ Ret.info.version = "V5"
        /\ Ret.info.crypto_size = 0
        /\ Ret.info.ext_km = None
        /\ Ret.conn.crypto_manager = None

C9_Witness ==
    /\ CallEnded
    /\ ~IsSome(settings.crypto)
    /\ IsSome(accepted) /\ Accepted.ok
    /\ Ret.kind = "Accept"
    /\ Incoming.crypto_size # 0
    /\ Ret.info.crypto_size = 0

\* C10: every Ok of finish_hsv5_initiation carries the crypto manager made
\* at start: with crypto of key size k configured it is present, it is the
\* one whose key-exchange request went out, and its key length is k, the
\* crypto_size of the request; with no crypto configured there is none.
C10_InitiatorCryptoRoundTrip ==
    \A i \in OkFinishes :
        LET conn == finished[i].ret.conn
            own == finished[i].self.settings
            req == Unwrap(request).info
        IN  IF IsSome(own.crypto)
            THEN /\ IsSome(conn.crypto_manager)
                 /\ req.ext_km =
                      Some(KeyManagerRequest(generate_km(Unwrap(conn.crypto_manager))))
                 /\ key_length(Unwrap(conn.crypto_manager)) = Unwrap(own.crypto).size
                 /\ req.crypto_size = Unwrap(own.crypto).size
            ELSE /\ conn.crypto_manager = None
                 /\ req.ext_km = None
                 /\ req.crypto_size = 0

C10_Witness ==
    /\ OkFinishes # {}
    /\ IsSome(finished[1].self.settings.crypto)
    /\ IsSome(finished[1].ret.conn.crypto_manager)
    /\ ~IsSome(Unwrap(response).info.ext_km)

\* C11: finish_hsv5_initiation returns Err(UnsupportedProtocolVersion) on a
\* response that is not V5, Err(ExpectedExtFlags) on a V5 response without
\* ext_hs, Err(ExpectedHSResp) on a V5 response whose ext_hs is not a
\* handshake response, each without ConnectionSettings, and Ok otherwise.
C11_FinishOutcome ==
    \A i \in DOMAIN finished :
        LET ret == finished[i].ret
            info == Unwrap(response).info
        IN  IF info.version # "V5"
            THEN ret = [ok |-> FALSE,
                        err |-> [type |-> "UnsupportedProtocolVersion",
                                 version |-> info.version]]
            ELSE IF ~IsSome(info.ext_hs)
            THEN ret = [ok |-> FALSE, err |-> [type |-> "ExpectedExtFlags"]]
            ELSE IF Unwrap(info.ext_hs).type # "HandshakeResponse"
            THEN ret = [ok |-> FALSE, err |-> [type |-> "ExpectedHSResp"]]
            ELSE ret.ok /\ DOMAIN ret = {"ok", "conn"}

C11_Witness ==
    /\ finished # <<>>
    /\ ~finished[1].ret.ok
    /\ finished[1].ret.err.type = "ExpectedExtFlags"
    /\ IsSome(finished[1].self.cm)

\* C12: on every Accept and every Ok, send_tsbpd_latency is exactly the
\* larger of the own configured send latency and the peer's advertised
\* receive latency, and recv_tsbpd_latency exactly the larger of the own
\* configured receive latency and the peer's advertised send latency, the
\* peer's latencies being those of ext_hs of the inbound message.
C12_ExactMaxLatency ==
    /\ ResponderFinalized =>
          /\ Ret.conn.send_tsbpd_latency
               = (IF settings.send_latency >= PeerHs.recv_latency
                  THEN settings.send_latency ELSE PeerHs.recv_latency)
          /\ Ret.conn.recv_tsbpd_latency
               = (IF settings.recv_latency >= PeerHs.send_latency
                  THEN settings.recv_latency ELSE PeerHs.send_latency)
    /\ \A i \in OkFinishes :
          LET conn == finished[i].ret.conn
              own == finished[i].self.settings
              hs == Unwrap(Unwrap(response).info.ext_hs).hs
          IN  /\ conn.send_tsbpd_latency
                   = (IF own.send_latency >= hs.recv_latency
                      THEN own.send_latency ELSE hs.recv_latency)
              /\ conn.recv_tsbpd_latency
                   = (IF own.recv_latency >= hs.send_latency
                      THEN own.recv_latency ELSE hs.send_latency)

\* the initiator finished with a send latency raised to the peer's receive
\* latency and a receive latency left at its own
C12_Witness ==
    /\ OkFinishes # {}
    /\ ResponderFinalized
    /\ finished[1].ret.conn.send_tsbpd_latency > finished[1].self.settings.send_latency
    /\ finished[1].ret.conn.recv_tsbpd_latency = finished[1].self.settings.recv_latency
    /\ finished[1].self.settings.recv_latency > settings.send_latency

\* C13: the responder checks the version, then access control, then the
\* ext_hs framing, then crypto, and the first failing check decides: an
\* acceptor rejection is the result whatever ext_hs is, a missing or
\* wrong-shape ext_hs gives NotHandled whatever the crypto configuration and
\* ext_km are, and only a call with a handshake request in ext_hs gets its
\* result from the crypto negotiation.
C13_CheckOrder ==
    CallEnded =>
        /\ Incoming.version # "V5" =>
              (Ret = Reject(Rejecting("Version")) /\ accepted = None)
        /\ Incoming.version = "V5" =>
              /\ IsSome(accepted)
              /\ ~Accepted.ok => Ret = Reject(Rejecting(Accepted.reason))
              /\ (Accepted.ok
                    /\ ~(IsSome(Incoming.ext_hs)
                          /\ Unwrap(Incoming.ext_hs).type = "HandshakeRequest"))
                  => Ret.kind = "NotHandled"
              /\ (Accepted.ok /\ IsSome(Incoming.ext_hs)
                    /\ Unwrap(Incoming.ext_hs).type = "HandshakeRequest")
                  => Ret.kind # "NotHandled"

\* NotHandled on a wrong-shape ext_hs although the settings have no crypto
\* and the peer sent a key-exchange request
C13_Witness ==
    /\ CallEnded
    /\ Incoming.version = "V5"
    /\ IsSome(accepted) /\ Accepted.ok
    /\ IsSome(Incoming.ext_hs) /\ Unwrap(Incoming.ext_hs).type = "HandshakeResponse"
    /\ ~IsSome(settings.crypto) /\ IsSome(Incoming.ext_km)
    /\ Ret = NotHandled("ExpectedHSReq")

\* C14: when the call reaches the crypto match with crypto configured, a
\* key-exchange request in ext_km and a crypto_size equal to the configured
\* key size, and CryptoManager::new_from_kmreq fails, the result is Reject
\* carrying that failure: no Accept, no ConnectionSettings.
C14_UnwrapFailureRejected ==
    (CallEnded /\ Incoming.version = "V5" /\ IsSome(accepted) /\ Accepted.ok
        /\ IsSome(Incoming.ext_hs) /\ Unwrap(Incoming.ext_hs).type = "HandshakeRequest"
        /\ IsSome(settings.crypto)
        /\ IsSome(Incoming.ext_km)
        /\ Unwrap(Incoming.ext_km).type = "KeyManagerRequest"
        /\ Incoming.crypto_size = Unwrap(settings.crypto).size
        /\ ~new_from_kmreq(Unwrap(settings.crypto), Unwrap(Incoming.ext_km).km).ok) =>
        /\ Ret = Reject(new_from_kmreq(Unwrap(settings.crypto),
                                       Unwrap(Incoming.ext_km).km).err)
        /\ DOMAIN Ret = {"kind", "reject"}

\* the peer wrapped its key under another passphrase
C14_Witness ==
    /\ CallEnded
    /\ Incoming.version = "V5"
    /\ IsSome(settings.crypto)
    /\ IsSome(Incoming.ext_km)
    /\ Unwrap(Incoming.ext_km).type = "KeyManagerRequest"
    /\ Incoming.crypto_size = Unwrap(settings.crypto).size
    /\ Unwrap(Incoming.ext_km).km.klen = Unwrap(settings.crypto).size
    /\ Unwrap(Incoming.ext_km).km.wrap # Unwrap(settings.crypto).passphrase
    /\ Ret = Reject(Rejecting("BadSecret"))

\* C15: in a call that the acceptor accepts, the crypto configuration the
\* negotiation uses is the acceptor's when it supplies one, replacing what
\* the settings held, and the settings' prior one otherwise: it is what
\* the settings hold after the call, the result has a crypto manager only
\* with it and built from it, and with a handshake request, a key-exchange
\* request of its size and a successful unwrap the result is Accept with
\* that crypto manager.
C15_EffectiveCrypto ==
    [][(IsGenStep /\ Incoming.version = "V5" /\ IsSome(accepted')
            /\ Unwrap(accepted').ok) =>
          LET eff == IF IsSome(Unwrap(accepted').crypto)
                     THEN Unwrap(accepted').crypto
                     ELSE settings.crypto
              ret == Unwrap(result')
              hsreq == IsSome(Incoming.ext_hs)
                         /\ Unwrap(Incoming.ext_hs).type = "HandshakeRequest"
              kmreq == IsSome(Incoming.ext_km)
                         /\ Unwrap(Incoming.ext_km).type = "KeyManagerRequest"
          IN  /\ settings'.crypto = eff
              /\ ret.kind = "Accept" =>
                    /\ IsSome(ret.conn.crypto_manager) <=> IsSome(eff)
                    /\ IsSome(eff) =>
                         Unwrap(ret.conn.crypto_manager).options = Unwrap(eff)
              /\ (hsreq /\ kmreq /\ IsSome(eff)
                    /\ Incoming.crypto_size = Unwrap(eff).size
                    /\ new_from_kmreq(Unwrap(eff), Unwrap(Incoming.ext_km).km).ok)
                  => /\ ret.kind = "Accept"
                     /\ ret.conn.crypto_manager =
                          Some([options |-> Unwrap(eff),
                                key |-> Unwrap(Incoming.ext_km).km.key])
              /\ (hsreq /\ ~IsSome(eff) /\ ~IsSome(Incoming.ext_km))
                  => ret.kind = "Accept"]_vars

\* the acceptor supplied crypto options and the peer's key-exchange request
\* was unwrapped with them
C15_Witness ==
    /\ CallEnded
    /\ crypto_from_acceptor
    /\ IsSome(accepted) /\ Accepted.ok /\ IsSome(Accepted.crypto)
    /\ Ret.kind = "Accept"
    /\ IsSome(Ret.conn.crypto_manager)
    /\ Unwrap(Ret.conn.crypto_manager).options = Unwrap(Accepted.crypto)

\* C16: on every Accept the outbound payload is V5, its ext_hs is a
\* handshake response holding the local configured send and receive
\* latencies, it carries a key-exchange response iff the ConnectionSettings
\* has a crypto manager, and its crypto_size is that crypto manager's key
\* length, or 0 without one.
C16_AcceptPayload ==
    ResponderFinalized =>
        LET info == Ret.info
            cm == Ret.conn.crypto_manager
        IN  /\ info.version = "V5"
            /\ IsSome(info.ext_hs)
            /\ Unwrap(info.ext_hs).type = "HandshakeResponse"
            /\ Unwrap(info.ext_hs).hs.send_latency = settings.send_latency
            /\ Unwrap(info.ext_hs).hs.recv_latency = settings.recv_latency
            /\ Unwrap(info.ext_hs).hs.version = "CURRENT"
            /\ Unwrap(info.ext_hs).hs.flags = "SUPPORTED"
            /\ IsSome(info.ext_km) <=> IsSome(cm)
            /\ IsSome(info.ext_km) =>
                 Unwrap(info.ext_km).type = "KeyManagerResponse"
            /\ info.crypto_size = (IF IsSome(cm) THEN key_length(Unwrap(cm)) ELSE 0)

C16_Witness ==
    /\ ResponderFinalized
    /\ IsSome(Ret.conn.crypto_manager)
    /\ IsSome(Ret.info.ext_km)
    /\ Ret.info.crypto_size = 24
    /\ settings.send_latency # settings.recv_latency

\* every StartedInitiator made so far: those still held and those finished
AllTokens ==
    {tokens[i] : i \in DOMAIN tokens} \cup {finished[i].self : i \in DOMAIN finished}

\* C17: start_hsv5_initiation returns, for all settings and stream ids, a V5
\* payload with a handshake request holding the local latencies, a
\* key-exchange request iff crypto is configured, crypto_size the configured
\* key size (0 without crypto) and the stream id given, and a token that
\* holds a crypto manager iff crypto is configured, beside the settings and
\* the stream id.
C17_StartOutput ==
    \A t \in AllTokens :
        /\ IsSome(request)
        /\ t.settings \in ConnInitSettings(CallerSockId, CallerSeqNum)
        /\ LET info == Unwrap(request).info
           IN  /\ info.version = "V5"
               /\ info.ext_hs =
                    Some(HandshakeRequest(SrtHandshake(t.settings.send_latency,
                                                       t.settings.recv_latency)))
               /\ IsSome(info.ext_km) <=> IsSome(t.settings.crypto)
               /\ IsSome(info.ext_km) =>
                    /\ Unwrap(info.ext_km).type = "KeyManagerRequest"
                    /\ Unwrap(info.ext_km).km = generate_km(Unwrap(t.cm))
               /\ info.crypto_size =
                    (IF IsSome(t.settings.crypto) THEN Unwrap(t.settings.crypto).size
                     ELSE 0)
               /\ info.sid = t.streamid
               /\ IsSome(t.cm) <=> IsSome(t.settings.crypto)
               /\ IsSome(t.cm) => Unwrap(t.cm).options = Unwrap(t.settings.crypto)

C17_Witness ==
    /\ Len(tokens) = 1
    /\ finished = <<>>
    /\ IsSome(tokens[1].cm)
    /\ IsSome(tokens[1].streamid)
    /\ IsSome(request)
    /\ Unwrap(request).info.crypto_size = 16
    /\ IsSome(Unwrap(request).info.ext_km)

\* C18: in a handshake that both sides complete, the two sides agree on the
\* latency of each direction: the initiator's send_tsbpd_latency is the
\* responder's recv_tsbpd_latency and the initiator's recv_tsbpd_latency is
\* the responder's send_tsbpd_latency.
C18_LatencyAgreement ==
    \A i \in OkFinishes :
        ResponderFinalized =>
            /\ finished[i].ret.conn.send_tsbpd_latency = Ret.conn.recv_tsbpd_latency
            /\ finished[i].ret.conn.recv_tsbpd_latency = Ret.conn.send_tsbpd_latency

\* a completed handshake whose two directions got different latencies, one
\* of them raised above what the initiator configured
C18_Witness ==
    /\ OkFinishes # {}
    /\ ResponderFinalized
    /\ Ret.conn.send_tsbpd_latency # Ret.conn.recv_tsbpd_latency
    /\ finished[1].ret.conn.send_tsbpd_latency > finished[1].self.settings.send_latency
    /\ settings.send_latency # settings.recv_latency

\* C19: in a handshake that both sides complete the stream id is the same
\* everywhere: the responder's outbound payload echoes the sid of the
\* inbound request, the responder's stream_id equals it, the initiator's
\* stream_id is the one given to start_hsv5_initiation (kept in the token),
\* and the two stream_ids are equal.
C19_StreamIdAgreement ==
    /\ ResponderFinalized =>
          /\ Ret.info.sid = Incoming.sid
          /\ Ret.conn.stream_id = Incoming.sid
    /\ \A i \in OkFinishes :
          /\ finished[i].ret.conn.stream_id = finished[i].self.streamid
          /\ ResponderFinalized =>
                /\ finished[i].ret.conn.stream_id = Ret.conn.stream_id
                /\ finished[i].self.streamid = Incoming.sid
                /\ Unwrap(response).info.sid = finished[i].self.streamid

C19_Witness ==
    /\ OkFinishes # {}
    /\ ResponderFinalized
    /\ finished[1].ret.conn.stream_id = Some("sid")
    /\ Ret.conn.stream_id = Some("sid")

\* C20: a call of gen_hsv5_response changes the caller's settings only in
\* the crypto field, and only when the payload is V5 and the acceptor
\* accepted and supplied crypto options, which then stay in place whatever
\* the call returns; local_sockid, starting_send_seqnum, send_latency and
\* recv_latency are never changed once the listener is set up, and the
\* inbound message is never changed by the call.
C20_SettingsFrame ==
    [][/\ rpc # "new" =>
            /\ settings'.local_sockid = settings.local_sockid
            /\ settings'.starting_send_seqnum = settings.starting_send_seqnum
            /\ settings'.send_latency = settings.send_latency
            /\ settings'.recv_latency = settings.recv_latency
       /\ IsGenStep =>
            /\ with_hsv5' = with_hsv5
            /\ settings'.crypto =
                 (IF Incoming.version = "V5" /\ IsSome(accepted')
                       /\ Unwrap(accepted').ok /\ IsSome(Unwrap(accepted').crypto)
                  THEN Unwrap(accepted').crypto
                  ELSE settings.crypto)
       /\ ~IsGenStep => (rpc # "new" => settings'.crypto = settings.crypto)]_vars

\* the acceptor's crypto options are in the settings after a call that
\* ended in Reject
C20_Witness ==
    /\ CallEnded
    /\ IsSome(accepted) /\ Accepted.ok /\ IsSome(Accepted.crypto)
    /\ settings.crypto = Accepted.crypto
    /\ Ret.kind = "Reject"

=============================================================================
